---- MODULE Spec2Model ----
(***************************************************************************)
(* A model of fyne-cross' container-engine selection (MakeEngine), of the  *)
(* FreeBSD command's container image setup (setupContainerImages) and of   *)
(* its per-image build (freeBSD.Build).                                    *)
(*                                                                         *)
(* Three specifications share the module, one per piece of the program:    *)
(*   SpecEngine  one call of MakeEngine on every host state and request;   *)
(*   SpecSetup   one call of setupContainerImages on every flag set;       *)
(*   SpecBuild   Build(image) for the two FreeBSD images, run concurrently *)
(*               against one shared context and one shared mount.          *)
(*                                                                         *)
(* Text is modelled as a sequence: version output as a sequence of         *)
(* characters, environment values as a sequence of words and single        *)
(* spaces, container paths as a sequence of path components.               *)
(***************************************************************************)
EXTENDS Naturals, Sequences, FiniteSets, TLC

VARIABLES
    \* ---- MakeEngine ----
    e,            \* the requested engine name (the argument of MakeEngine)
    hostPath,     \* host state: the PATH directory holding a binary, or ""
    versionOut,   \* host state: stdout of "<binaryPath> --version"
    versionErr,   \* host state: TRUE when that command exits with an error
    k8sErr,       \* host state: the error of checkKubernetesClient (or Nil)
    engPc,        \* "call" before MakeEngine ran, "done" after it returned
    engine,       \* the returned pair [Name, Binary, err]
    lookups,      \* the names passed to execabs.LookPath, in order
    probes,       \* the binaries run with --version, in order
    k8sChecks,    \* how often checkKubernetesClient was called
    \* ---- setupContainerImages ----
    goarch,       \* runtime.GOARCH of the host
    archFlag,     \* the architectures named by the -arch flag
    ctxEnv,       \* ctx.Env, the environment given on the command line
    imageFlag,    \* the -image override ("" when not given)
    setupFault,   \* which collaborator of the setup fails ("none" if none)
    setupPc,      \* "call" before setupContainerImages ran, "done" after
    setupErr,     \* the error setupContainerImages returned
    Images,       \* cmd.Images
    \* ---- Build ----
    Name,         \* cmd.defaultContext.Name
    Release,      \* cmd.defaultContext.Release
    pc,           \* per image: the phase its Build call is about to run
    calls,        \* per image: the calls Build made and what each returned
    ret,          \* per image: what Build returned
    fs,           \* the files of the mount the containers share
    moved         \* per image: whose package its mv took out of the work dir

engineVars == <<e, hostPath, versionOut, versionErr, k8sErr, engPc, engine,
                lookups, probes, k8sChecks>>
setupVars  == <<goarch, archFlag, ctxEnv, imageFlag, setupFault, setupPc,
                setupErr, Images>>
buildVars  == <<Name, Release, pc, calls, ret, fs, moved>>
vars       == <<engineVars, setupVars, buildVars>>

(***************************************************************************)
(* Bounds of the model.                                                    *)
(***************************************************************************)
\* the version output is made of at most this many words
MaxWords == 2
\* the -arch flag names at most this many architectures
MaxArchs == 2

(***************************************************************************)
(* Errors.  An error value keeps the message and, where the code formats   *)
(* one in, the value formatted into it.                                    *)
(***************************************************************************)
Nil == [nil |-> TRUE, msg |-> "", arg |-> <<>>]
Err(msg, arg) == [nil |-> FALSE, msg |-> msg, arg |-> arg]

(***************************************************************************)
(* Text helpers for the version output.                                    *)
(***************************************************************************)
UpperCase == <<"A","B","C","D","E","F","G","H","I","J","K","L","M",
               "N","O","P","Q","R","S","T","U","V","W","X","Y","Z">>
LowerCase == <<"a","b","c","d","e","f","g","h","i","j","k","l","m",
               "n","o","p","q","r","s","t","u","v","w","x","y","z">>

\* strings.ToLower, one character
LowerChar(c) ==
    IF \E i \in 1..26 : UpperCase[i] = c
    THEN LowerCase[CHOOSE i \in 1..26 : UpperCase[i] = c]
    ELSE c

\* strings.ToLower
ToLower(s) == [i \in 1..Len(s) |-> LowerChar(s[i])]

\* does sub start at position i of s
RECURSIVE HasPrefixAt(_, _, _, _)
HasPrefixAt(s, sub, i, k) ==
    IF k > Len(sub) THEN TRUE
    ELSE IF i + k - 1 > Len(s) THEN FALSE
    ELSE IF s[i + k - 1] # sub[k] THEN FALSE
    ELSE HasPrefixAt(s, sub, i, k + 1)

\* strings.Index scanning from position i
RECURSIVE ContainsFrom(_, _, _)
ContainsFrom(s, sub, i) ==
    IF i + Len(sub) - 1 > Len(s) THEN FALSE
    ELSE IF HasPrefixAt(s, sub, i, 1) THEN TRUE
    ELSE ContainsFrom(s, sub, i + 1)

\* strings.Contains
Contains(s, sub) == ContainsFrom(s, sub, 1)

(***************************************************************************)
(* MakeEngine: constants and types.                                        *)
(***************************************************************************)
autodetectEngine == ""
dockerEngine     == "docker"
podmanEngine     == "podman"
kubernetesEngine == "kubernetes"

\* the engine names as the characters strings.Contains looks for
dockerChars == <<"d","o","c","k","e","r">>
podmanChars == <<"p","o","d","m","a","n">>

\* the binary the autodetection runs: "/usr/bin/docker"
fixedBinaryPath == <<"/usr/bin", "docker">>

\* what MakeEngine returns; Engine{} next to an error is Name "", Binary ""
Returned(name, binary, err) == [Name |-> name, Binary |-> binary, err |-> err]

\* execabs.LookPath: the path found on the host; <<>> stands for its error
LookPath(name) == IF hostPath[name] = "" THEN <<>> ELSE <<hostPath[name], name>>

\* case dockerEngine / case podmanEngine: the looked-up binary or an error
LocalEngineWrongName(name) ==
    IF LookPath(name) = <<>>
    THEN Returned("", <<>>, Err("binary not found in PATH", <<name>>))
    ELSE Returned(dockerEngine, LookPath(name), Nil)

LocalEngine(name) ==
    IF LookPath(name) = <<>>
    THEN Returned("", <<>>, Err("binary not found in PATH", <<name>>))
    ELSE Returned(name, LookPath(name), Nil)

\* case "": what the version output of the fixed binary resolves to
DetectEngineNoLower(out, failed) ==
    IF failed
    THEN Returned("", <<>>, Err("could not detect engine version", out))
    ELSE IF Contains(out, dockerChars)
         THEN Returned(dockerEngine, fixedBinaryPath, Nil)
         ELSE IF Contains(out, podmanChars)
              THEN Returned(podmanEngine, fixedBinaryPath, Nil)
              ELSE Returned("", <<>>, Err("could not detect engine version", out))

DetectEngine(out, failed) ==
    IF failed
    THEN Returned("", <<>>, Err("could not detect engine version", out))
    ELSE LET lout == ToLower(out) IN
         IF Contains(lout, dockerChars)
         THEN Returned(dockerEngine, fixedBinaryPath, Nil)
         ELSE IF Contains(lout, podmanChars)
              THEN Returned(podmanEngine, fixedBinaryPath, Nil)
              ELSE Returned("", <<>>, Err("could not detect engine version", out))

\* case kubernetesEngine
KubernetesEngine ==
    IF ~k8sErr.nil
    THEN Returned("", <<>>, k8sErr)
    ELSE Returned(kubernetesEngine, <<>>, Nil)

\* default
UnsupportedEngine == Returned("", <<>>, Err("unsupported container engine", <<>>))

(***************************************************************************)
(* MakeEngine: one action per case of its switch.  Each is the whole call. *)
(***************************************************************************)
EngineReturn(r, looked, probed, checked) ==
    /\ engPc = "call"
    /\ engine' = r
    /\ lookups' = lookups \o looked
    /\ probes' = probes \o probed
    /\ k8sChecks' = k8sChecks + checked
    /\ engPc' = "done"
    /\ UNCHANGED <<e, hostPath, versionOut, versionErr, k8sErr>>
    /\ UNCHANGED <<setupVars, buildVars>>

MakeEngineDocker ==
    /\ e = dockerEngine
    /\ EngineReturn(LocalEngine(dockerEngine), <<dockerEngine>>, <<>>, 0)

MakeEnginePodman ==
    /\ e = podmanEngine
    /\ EngineReturn(LocalEngine(podmanEngine), <<podmanEngine>>, <<>>, 0)

MakeEngineAutodetect ==
    /\ e = autodetectEngine
    /\ EngineReturn(DetectEngine(versionOut, versionErr), <<>>,
                    <<fixedBinaryPath>>, 0)

MakeEngineKubernetes ==
    /\ e = kubernetesEngine
    /\ EngineReturn(KubernetesEngine, <<>>, <<>>, 1)

MakeEngineDefault ==
    /\ e \notin {dockerEngine, podmanEngine, autodetectEngine, kubernetesEngine}
    /\ EngineReturn(UnsupportedEngine, <<>>, <<>>, 0)

NextEngine ==
    \/ MakeEngineDocker
    \/ MakeEnginePodman
    \/ MakeEngineAutodetect
    \/ MakeEngineKubernetes
    \/ MakeEngineDefault

(***************************************************************************)
(* The requests and host states MakeEngine is run on.                      *)
(***************************************************************************)
RequestedNames == {"", "docker", "podman", "kubernetes", "bogus", "Docker"}

HostDirs == {"", "/usr/bin", "/usr/local/bin"}

\* pieces of version output; "dock" and "er" join into the docker token
Words == { <<"D","o","c","k","e","r">>,
           <<"d","o","c","k","e","r">>,
           <<"P","O","D","M","A","N">>,
           <<"p","o","d","m","a","n">>,
           <<"d","o","c","k">>,
           <<"e","r">>,
           <<" ","v","4",".","3">>,
           <<"n","e","r","d","c","t","l">> }

RECURSIVE Flatten(_)
Flatten(ws) == IF ws = <<>> THEN <<>> ELSE Head(ws) \o Flatten(Tail(ws))

VersionOutputs ==
    UNION { { Flatten(ws) : ws \in [1..n -> Words] } : n \in 0..MaxWords }

K8sErrors == {Nil, Err("cluster unreachable", <<>>)}

EngineIdle ==
    /\ e = "" /\ hostPath = [n \in {dockerEngine, podmanEngine} |-> ""]
    /\ versionOut = <<>> /\ versionErr = FALSE /\ k8sErr = Nil
    /\ engPc = "idle" /\ engine = Returned("", <<>>, Nil)
    /\ lookups = <<>> /\ probes = <<>> /\ k8sChecks = 0

EngineInputs ==
    /\ e \in RequestedNames
    /\ hostPath \in [{dockerEngine, podmanEngine} -> HostDirs]
    /\ versionOut \in VersionOutputs
    /\ versionErr \in BOOLEAN
    /\ k8sErr \in K8sErrors
    /\ engPc = "call" /\ engine = Returned("", <<>>, Nil)
    /\ lookups = <<>> /\ probes = <<>> /\ k8sChecks = 0

(***************************************************************************)
(* setupContainerImages.                                                   *)
(***************************************************************************)
freebsdOS         == "freebsd"
freebsdImageAmd64 == "fyneio/fyne-cross-images:freebsd-amd64"
freebsdImageArm64 == "fyneio/fyne-cross-images:freebsd-arm64"

ArchAmd64 == "amd64"
ArchArm64 == "arm64"
freebsdArchSupported == <<ArchAmd64, ArchArm64>>

\* the linker flag, as one word
lldFlag == "-fuse-ld=lld"

\* -image given: that reference, verbatim; otherwise the built-in one
overrideDockerImage(default) == IF imageFlag # "" THEN imageFlag ELSE default

\* a new image of the engine: nothing set in its environment yet
createContainerImage(arch, os, ref) ==
    [Architecture |-> arch, OS |-> os, DockerImage |-> ref, Env |-> <<>>]

\* image.SetEnv(k, v)
SetEnv(image, k, v) == [image EXCEPT !.Env = (k :> v) @@ image.Env]

\* the four lines that set CGO_LDFLAGS from ctx.Env
WithLLDOverwrite(image) == SetEnv(image, "CGO_LDFLAGS", <<lldFlag>>)

WithLLD(image) ==
    IF "CGO_LDFLAGS" \in DOMAIN ctxEnv
    THEN SetEnv(image, "CGO_LDFLAGS", ctxEnv["CGO_LDFLAGS"] \o <<" ", lldFlag>>)
    ELSE SetEnv(image, "CGO_LDFLAGS", <<lldFlag>>)

\* case ArchAmd64
Amd64ImageAlwaysLLD ==
    LET i0 == createContainerImage(ArchAmd64, freebsdOS,
                                   overrideDockerImage(freebsdImageAmd64))
        i1 == SetEnv(i0, "GOARCH", <<"amd64">>)
        i2 == SetEnv(i1, "CC", <<"clang", " ", "--sysroot=/freebsd", " ",
                                 "--target=x86_64-unknown-freebsd12">>)
        i3 == SetEnv(i2, "CXX", <<"clang++", " ", "--sysroot=/freebsd", " ",
                                  "--target=x86_64-unknown-freebsd12">>)
    IN  WithLLD(i3)

Amd64Image ==
    LET i0 == createContainerImage(ArchAmd64, freebsdOS,
                                   overrideDockerImage(freebsdImageAmd64))
        i1 == SetEnv(i0, "GOARCH", <<"amd64">>)
        i2 == SetEnv(i1, "CC", <<"clang", " ", "--sysroot=/freebsd", " ",
                                 "--target=x86_64-unknown-freebsd12">>)
        i3 == SetEnv(i2, "CXX", <<"clang++", " ", "--sysroot=/freebsd", " ",
                                  "--target=x86_64-unknown-freebsd12">>)
    IN  IF goarch = ArchArm64 THEN WithLLD(i3) ELSE i3

\* case ArchArm64
Arm64Image ==
    LET i0 == createContainerImage(ArchArm64, freebsdOS,
                                   overrideDockerImage(freebsdImageArm64))
        i1 == SetEnv(i0, "GOARCH", <<"arm64">>)
        i2 == WithLLD(i1)
        i3 == SetEnv(i2, "CC", <<"clang", " ", "--sysroot=/freebsd", " ",
                                 "--target=aarch64-unknown-freebsd12">>)
    IN  SetEnv(i3, "CXX", <<"clang++", " ", "--sysroot=/freebsd", " ",
                            "--target=aarch64-unknown-freebsd12">>)

\* one round of the loop over targetArch
ImageFor(arch) ==
    SetEnv(IF arch = ArchAmd64 THEN Amd64Image ELSE Arm64Image,
           "GOOS", <<"freebsd">>)

SetupReturn(err, images) ==
    /\ setupPc = "call"
    /\ setupErr' = err
    /\ Images' = Images \o images
    /\ setupPc' = "done"
    /\ UNCHANGED <<goarch, archFlag, ctxEnv, imageFlag, setupFault>>
    /\ UNCHANGED <<engineVars, buildVars>>

\* targetArchFromFlag returns an error
SetupArchError ==
    /\ setupFault = "arch"
    /\ SetupReturn(Err("could not make build context for freebsd OS",
                       <<"arch">>), <<>>)

\* makeDefaultContext returns an error
SetupContextError ==
    /\ setupFault = "context"
    /\ SetupReturn(Err("makeDefaultContext", <<>>), <<>>)

\* newContainerEngine returns an error
SetupEngineError ==
    /\ setupFault = "engine"
    /\ SetupReturn(Err("newContainerEngine", <<>>), <<>>)

\* no collaborator fails: one image per target architecture
SetupImages ==
    /\ setupFault = "none"
    /\ SetupReturn(Nil, [i \in 1..Len(archFlag) |-> ImageFor(archFlag[i])])

NextSetup ==
    \/ SetupArchError
    \/ SetupContextError
    \/ SetupEngineError
    \/ SetupImages

HostArchs == {"amd64", "arm64", "386"}

ArchFlags ==
    UNION { [1..n -> {ArchAmd64, ArchArm64}] : n \in 1..MaxArchs }

LdflagValues == { <<>>, <<"-existing">>, <<"-L/usr/local/lib", " ", "-lm">> }

ContextEnvs ==
    { <<>>, ("CGO_CFLAGS" :> <<"-O2">>) }
      \cup { ("CGO_LDFLAGS" :> v) : v \in LdflagValues }

SetupIdle ==
    /\ goarch = "amd64" /\ archFlag = freebsdArchSupported
    /\ ctxEnv = <<>> /\ imageFlag = "" /\ setupFault = "none"
    /\ setupPc = "idle" /\ setupErr = Nil
    /\ Images = [i \in 1..Len(archFlag) |-> ImageFor(archFlag[i])]

SetupInputs ==
    /\ goarch \in HostArchs
    /\ archFlag \in ArchFlags
    /\ ctxEnv \in ContextEnvs
    /\ imageFlag \in {"", "example/freebsd:dev"}
    /\ setupFault \in {"none", "arch", "context", "engine"}
    /\ setupPc = "call" /\ setupErr = Nil
    /\ Images = <<>>

(***************************************************************************)
(* Build.  A container path is the sequence of its components, a component *)
(* the sequence of the pieces it is formatted from.                        *)
(***************************************************************************)
\* the container-side roots of the shared context
WorkDirContainer == << <<"app">> >>
TmpDirContainer  == << <<"app">>, <<"fyne-cross">>, <<"tmp">> >>
BinDirContainer  == << <<"app">>, <<"fyne-cross">>, <<"bin">> >>

\* volume.JoinPathContainer on two and on three elements
JoinPathContainer(dir, name) == dir \o <<name>>
JoinPathContainer3(dir, sub, name) == dir \o <<sub>> \o <<name>>

\* image.ID(): the token derived from OS and architecture
ID(image) == <<image.OS, "-", image.Architecture>>

\* fmt.Sprintf("%s.tar.xz", cmd.defaultContext.Name)
packageName == <<Name, ".tar.xz">>

\* where the packaging leaves the package, and the source of the mv
PackageOutput == JoinPathContainer(WorkDirContainer, packageName)

\* the target of the mv and the archive the tar reads
RelocateTargetShared(image) == JoinPathContainer(TmpDirContainer, packageName)

RelocateTarget(image) ==
    JoinPathContainer3(TmpDirContainer, ID(image), packageName)

\* the directory the tar runs in
ExtractDir(image) == JoinPathContainer(BinDirContainer, ID(image))

\* the packaging procedure the release flag selects
PackageProcedureAlwaysDebug == "fynePackage"

PackageProcedure == IF Release THEN "fyneRelease" ELSE "fynePackage"

\* what Build returns when prepareIcon fails
PrepareFailedWrapped(err) ==
    [name |-> <<>>, err |-> Err("could not prepare the icon", <<err>>)]

PrepareFailed(err) == [name |-> <<>>, err |-> err]

\* what Build returns when the packaging fails
PackageFailedUnwrapped(err) == [name |-> <<>>, err |-> err]

PackageFailed(err) ==
    [name |-> <<>>, err |-> Err("could not package the Fyne app", <<err>>)]

\* what Build returns after the tar
BuildDone == [name |-> packageName, err |-> Nil]

\* a collaborator call as the build log keeps it
Call(cmd, src, dst, dir, err) ==
    [cmd |-> cmd, src |-> src, dst |-> dst, dir |-> dir, err |-> err]

\* the error of a container command that did not succeed
RunFailed == Err("exit status 1", <<>>)

\* the errors the collaborators of a build can return
IconErrors    == { Err("icon not found", <<>>), Err("icon conversion failed", <<>>) }
PackageErrors == { Err("fyne exited with status 1", <<>>) }

Builds == 1..Len(Images)

\* mv and tar inside the container: the files of the mount after them
WriteFile(files, path, by) == (path :> by) @@ files
RemoveFile(files, path) == [p \in DOMAIN files \ {path} |-> files[p]]

\* err := prepareIcon(...); if err != nil { return "", err }
Prepare(i) ==
    /\ pc[i] = "prepare"
    /\ \E err \in {Nil} \cup IconErrors :
          /\ calls' = [calls EXCEPT ![i] =
                          Append(@, Call("prepareIcon", <<>>, <<>>, <<>>, err))]
          /\ IF err.nil
             THEN /\ pc' = [pc EXCEPT ![i] = "package"]
                  /\ UNCHANGED ret
             ELSE /\ pc' = [pc EXCEPT ![i] = "done"]
                  /\ ret' = [ret EXCEPT ![i] = PrepareFailed(err)]
    /\ UNCHANGED <<Name, Release, fs, moved>>
    /\ UNCHANGED <<engineVars, setupVars>>

\* fyneRelease or fynePackage; if err != nil { return "", fmt.Errorf(...) }
Package(i) ==
    /\ pc[i] = "package"
    /\ \E err \in {Nil} \cup PackageErrors :
          /\ calls' = [calls EXCEPT ![i] =
                          Append(@, Call(PackageProcedure, <<>>, <<>>, <<>>, err))]
          /\ IF err.nil
             THEN /\ pc' = [pc EXCEPT ![i] = "relocate"]
                  /\ fs' = WriteFile(fs, PackageOutput, ID(Images[i]))
                  /\ UNCHANGED ret
             ELSE /\ pc' = [pc EXCEPT ![i] = "done"]
                  /\ ret' = [ret EXCEPT ![i] = PackageFailed(err)]
                  /\ UNCHANGED fs
    /\ UNCHANGED <<Name, Release, moved>>
    /\ UNCHANGED <<engineVars, setupVars>>

\* image.Run(..., "mv", src, dst): the error it returns is dropped
Relocate(i) ==
    LET src == PackageOutput
        dst == RelocateTarget(Images[i])
    IN
    /\ pc[i] = "relocate"
    /\ \E ran \in BOOLEAN :
          IF ran /\ src \in DOMAIN fs
          THEN /\ calls' = [calls EXCEPT ![i] =
                               Append(@, Call("mv", src, dst, <<>>, Nil))]
               /\ fs' = WriteFile(RemoveFile(fs, src), dst, fs[src])
               /\ moved' = [moved EXCEPT ![i] = fs[src]]
          ELSE /\ calls' = [calls EXCEPT ![i] =
                               Append(@, Call("mv", src, dst, <<>>, RunFailed))]
               /\ moved' = [moved EXCEPT ![i] =
                               IF ran THEN <<"missing">> ELSE <<"not run">>]
               /\ UNCHANGED fs
    /\ pc' = [pc EXCEPT ![i] = "extract"]
    /\ UNCHANGED <<Name, Release, ret>>
    /\ UNCHANGED <<engineVars, setupVars>>

\* image.Run(..., WorkDir, "tar", "-xf", archive, ...): the error is dropped;
\* return packageName, nil
Extract(i) ==
    LET archive == RelocateTarget(Images[i])
        dir     == ExtractDir(Images[i])
    IN
    /\ pc[i] = "extract"
    /\ \E ran \in BOOLEAN :
          IF ran /\ archive \in DOMAIN fs
          THEN /\ calls' = [calls EXCEPT ![i] =
                               Append(@, Call("tar", archive, <<>>, dir, Nil))]
               /\ fs' = WriteFile(fs, JoinPathContainer(dir, <<Name>>), fs[archive])
          ELSE /\ calls' = [calls EXCEPT ![i] =
                               Append(@, Call("tar", archive, <<>>, dir, RunFailed))]
               /\ UNCHANGED fs
    /\ pc' = [pc EXCEPT ![i] = "done"]
    /\ ret' = [ret EXCEPT ![i] = BuildDone]
    /\ UNCHANGED <<Name, Release, moved>>
    /\ UNCHANGED <<engineVars, setupVars>>

NextBuild ==
    \/ \E i \in Builds : Prepare(i)
    \/ \E i \in Builds : Package(i)
    \/ \E i \in Builds : Relocate(i)
    \/ \E i \in Builds : Extract(i)

AppNames == {"demo", "hello"}

NotReturned == [name |-> <<>>, err |-> Nil]

BuildIdle ==
    /\ Name = "demo" /\ Release = FALSE
    /\ pc = [i \in Builds |-> "idle"]
    /\ calls = [i \in Builds |-> <<>>]
    /\ ret = [i \in Builds |-> NotReturned]
    /\ fs = <<>>
    /\ moved = [i \in Builds |-> <<"none">>]

BuildInputs ==
    /\ Name \in AppNames /\ Release \in BOOLEAN
    /\ pc = [i \in Builds |-> "prepare"]
    /\ calls = [i \in Builds |-> <<>>]
    /\ ret = [i \in Builds |-> NotReturned]
    /\ fs = <<>>
    /\ moved = [i \in Builds |-> <<"none">>]

(***************************************************************************)
(* The specifications.                                                     *)
(***************************************************************************)
InitEngine == EngineInputs /\ SetupIdle /\ BuildIdle
InitSetup  == EngineIdle /\ SetupInputs /\ BuildIdle
InitBuild  == EngineIdle /\ SetupIdle /\ BuildInputs

SpecEngine == InitEngine /\ [][NextEngine]_vars
SpecSetup  == InitSetup /\ [][NextSetup]_vars
SpecBuild  == InitBuild /\ [][NextBuild]_vars

(***************************************************************************)
(* What the claims read off the state.                                     *)
(***************************************************************************)
\* sub occurs in s when letter case is ignored (sub is in lower case)
OccursIgnoringCase(s, sub) ==
    \E i \in 1..Len(s) :
        /\ i + Len(sub) - 1 <= Len(s)
        /\ \A k \in 1..Len(sub) : LowerChar(s[i + k - 1]) = sub[k]

NoEngineReturned == engine.Name = "" /\ engine.Binary = <<>> /\ ~engine.err.nil

LLDApplied(image) == "CGO_LDFLAGS" \in DOMAIN image.Env

\* the calls of build i that came back with an error
FailedCalls(i) == { k \in 1..Len(calls[i]) : ~calls[i][k].err.nil }

\* the names of the calls of build i, in order
CallNames(i) == [k \in 1..Len(calls[i]) |-> calls[i][k].cmd]

IsPrefix(p, q) == Len(p) <= Len(q) /\ SubSeq(q, 1, Len(p)) = p

\* the paths build i writes: the target of its mv, the directory of its tar
WrittenPaths(i) ==
    { calls[i][k].dst : k \in { n \in 1..Len(calls[i]) : calls[i][n].cmd = "mv" } }
      \cup
    { calls[i][k].dir : k \in { n \in 1..Len(calls[i]) : calls[i][n].cmd = "tar" } }

(***************************************************************************)
(* C1: Build returns the artifact name with a nil error only if every      *)
(* phase succeeded: a build whose mv or tar failed returns a non-nil       *)
(* error and no artifact name.                                             *)
(***************************************************************************)
C1_PhaseFailureReported ==
    \A i \in Builds :
        (/\ pc[i] = "done"
         /\ \E k \in FailedCalls(i) : calls[i][k].cmd \in {"mv", "tar"})
        => (~ret[i].err.nil /\ ret[i].name = <<>>)

(***************************************************************************)
(* C2: when prepareIcon fails, Build calls nothing else and returns the    *)
(* empty name with exactly the error prepareIcon returned.                 *)
(***************************************************************************)
C2_PrepareFailureAborts ==
    \A i \in Builds :
        (/\ Len(calls[i]) >= 1
         /\ calls[i][1].cmd = "prepareIcon"
         /\ ~calls[i][1].err.nil)
        => /\ Len(calls[i]) = 1
           /\ pc[i] = "done"
           /\ ret[i].name = <<>>
           /\ ret[i].err = calls[i][1].err

C2_Witness ==
    \E i \in Builds :
        /\ pc[i] = "done"
        /\ CallNames(i) = <<"prepareIcon">>
        /\ ~calls[i][1].err.nil

(***************************************************************************)
(* C3: when the packaging fails, in release or in debug mode, Build        *)
(* returns the empty name and an error wrapping the packaging error, and   *)
(* calls neither mv nor tar.                                               *)
(***************************************************************************)
C3_PackageFailureWrapped ==
    \A i \in Builds :
        (/\ Len(calls[i]) >= 2
         /\ calls[i][2].cmd \in {"fyneRelease", "fynePackage"}
         /\ ~calls[i][2].err.nil)
        => /\ Len(calls[i]) = 2
           /\ pc[i] = "done"
           /\ ret[i].name = <<>>
           /\ ~ret[i].err.nil
           /\ ret[i].err # calls[i][2].err
           /\ ret[i].err.msg = "could not package the Fyne app"
           /\ ret[i].err.arg = <<calls[i][2].err>>

C3_Witness ==
    \E i \in Builds :
        /\ pc[i] = "done"
        /\ Release
        /\ CallNames(i) = <<"prepareIcon", "fyneRelease">>
        /\ ~calls[i][2].err.nil

(***************************************************************************)
(* C4: the calls of one Build are, in this order and each at most once,    *)
(* prepareIcon, one packaging procedure, mv, tar; the packaging procedure  *)
(* is fyneRelease if the Release flag is set and fynePackage otherwise.    *)
(***************************************************************************)
C4_PhaseOrder ==
    \A i \in Builds :
        IsPrefix(CallNames(i),
                 <<"prepareIcon",
                   IF Release THEN "fyneRelease" ELSE "fynePackage",
                   "mv", "tar">>)

C4_Witness ==
    \E i \in Builds :
        /\ pc[i] = "done"
        /\ Release
        /\ CallNames(i) = <<"prepareIcon", "fyneRelease", "mv", "tar">>

(***************************************************************************)
(* C5: MakeEngine("") runs the version query once, on the fixed path, and  *)
(* looks nothing up; it returns docker on the fixed path if the output has *)
(* "docker" in any letter case, else podman on the fixed path if it has    *)
(* "podman", else (or if the query failed) an error and no engine.         *)
(***************************************************************************)
C5_Autodetect ==
    (engPc = "done" /\ e = "") =>
        /\ probes = <<fixedBinaryPath>>
        /\ lookups = <<>>
        /\ k8sChecks = 0
        /\ IF versionErr
           THEN NoEngineReturned
           ELSE IF OccursIgnoringCase(versionOut, dockerChars)
           THEN engine = Returned("docker", fixedBinaryPath, Nil)
           ELSE IF OccursIgnoringCase(versionOut, podmanChars)
           THEN engine = Returned("podman", fixedBinaryPath, Nil)
           ELSE NoEngineReturned /\ engine.err.arg = versionOut

C5_Witness ==
    /\ engPc = "done" /\ e = "" /\ ~versionErr
    /\ OccursIgnoringCase(versionOut, dockerChars)
    /\ OccursIgnoringCase(versionOut, podmanChars)
    /\ ~Contains(versionOut, dockerChars)
    /\ engine.Name = "docker"

(***************************************************************************)
(* C6: for a non-empty request MakeEngine returns the requested engine or  *)
(* an error, never another engine: a returned engine has the requested     *)
(* name, one of docker, podman, kubernetes, with the looked-up path as its *)
(* binary (none for kubernetes); a failed lookup or cluster check gives an *)
(* error; any other name gives the unsupported-engine error with no        *)
(* lookup, no subprocess and no cluster check.                             *)
(***************************************************************************)
C6_NoFallback ==
    (engPc = "done" /\ e # "") =>
        /\ engine.err.nil =>
              /\ engine.Name = e
              /\ e \in {"docker", "podman", "kubernetes"}
              /\ IF e = "kubernetes"
                 THEN engine.Binary = <<>>
                 ELSE hostPath[e] # "" /\ engine.Binary = <<hostPath[e], e>>
        /\ ~engine.err.nil => NoEngineReturned
        /\ (e \in {"docker", "podman"} /\ hostPath[e] = "") => ~engine.err.nil
        /\ (e = "kubernetes" /\ ~k8sErr.nil) => engine.err = k8sErr
        /\ e \in {"docker", "podman"} =>
              lookups = <<e>> /\ probes = <<>> /\ k8sChecks = 0
        /\ e \notin {"docker", "podman", "kubernetes"} =>
              /\ NoEngineReturned
              /\ engine.err.msg = "unsupported container engine"
              /\ lookups = <<>> /\ probes = <<>> /\ k8sChecks = 0

C6_Witness ==
    /\ engPc = "done" /\ e = "podman"
    /\ hostPath["docker"] # "" /\ hostPath["podman"] # ""
    /\ engine.err.nil /\ engine.Name = "podman"

(***************************************************************************)
(* C7, as claimed: an image gets CGO_LDFLAGS exactly when the host is not  *)
(* arm64 and the target is arm64, or the host is arm64 and the target is   *)
(* amd64.                                                                  *)
(***************************************************************************)
C7_AsClaimed ==
    setupPc = "done" =>
        \A k \in 1..Len(Images) :
            LLDApplied(Images[k]) <=>
                \/ goarch # "arm64" /\ Images[k].Architecture = "arm64"
                \/ goarch = "arm64" /\ Images[k].Architecture = "amd64"

(***************************************************************************)
(* C7, amended: an image gets CGO_LDFLAGS exactly when the target is arm64 *)
(* (on every host, arm64 included), or the host is arm64 and the target is *)
(* amd64; an amd64 target on a host that is not arm64 gets none.           *)
(***************************************************************************)
C7_LLDRule ==
    setupPc = "done" =>
        \A k \in 1..Len(Images) :
            LLDApplied(Images[k]) <=>
                \/ Images[k].Architecture = "arm64"
                \/ goarch = "arm64" /\ Images[k].Architecture = "amd64"

C7_Witness ==
    /\ setupPc = "done" /\ goarch = "arm64"
    /\ \E k \in 1..Len(Images) :
          Images[k].Architecture = "arm64" /\ LLDApplied(Images[k])
    /\ \E k \in 1..Len(Images) :
          Images[k].Architecture = "amd64" /\ LLDApplied(Images[k])

(***************************************************************************)
(* C8: where the LLD rule is applied and CGO_LDFLAGS was already set to v, *)
(* the image's value is v, a space, "-fuse-ld=lld"; it is "-fuse-ld=lld"   *)
(* alone only when no value was set.                                       *)
(***************************************************************************)
C8_Additive ==
    setupPc = "done" =>
        \A k \in 1..Len(Images) :
            LLDApplied(Images[k]) =>
                LET val == Images[k].Env["CGO_LDFLAGS"] IN
                /\ "CGO_LDFLAGS" \in DOMAIN ctxEnv =>
                      LET v == ctxEnv["CGO_LDFLAGS"] IN
                      /\ Len(val) = Len(v) + 2
                      /\ SubSeq(val, 1, Len(v)) = v
                      /\ val[Len(v) + 1] = " "
                      /\ val[Len(v) + 2] = "-fuse-ld=lld"
                /\ "CGO_LDFLAGS" \notin DOMAIN ctxEnv => val = <<"-fuse-ld=lld">>
                /\ val = <<"-fuse-ld=lld">> => "CGO_LDFLAGS" \notin DOMAIN ctxEnv

C8_Witness ==
    /\ setupPc = "done"
    /\ "CGO_LDFLAGS" \in DOMAIN ctxEnv
    /\ ctxEnv["CGO_LDFLAGS"] = <<"-existing">>
    /\ \E k \in 1..Len(Images) :
          /\ LLDApplied(Images[k])
          /\ Images[k].Env["CGO_LDFLAGS"] = <<"-existing", " ", "-fuse-ld=lld">>

(***************************************************************************)
(* C9: for two images with distinct identity tokens, no path one build     *)
(* writes (the target of its mv, the directory of its tar) equals or lies  *)
(* inside a path the other build writes.                                   *)
(***************************************************************************)
C9_PathsDisjoint ==
    \A i, j \in Builds :
        ID(Images[i]) # ID(Images[j]) =>
            \A p \in WrittenPaths(i), q \in WrittenPaths(j) :
                ~IsPrefix(p, q) /\ ~IsPrefix(q, p)

C9_Witness ==
    /\ \A i \in Builds : pc[i] = "done" /\ Len(calls[i]) = 4
    /\ \E i, j \in Builds : ID(Images[i]) # ID(Images[j])

(***************************************************************************)
(* C10: in every interleaving of two builds, the package a build's mv      *)
(* takes out of the work directory is the one its own packaging produced:  *)
(* never the other image's package, never missing.                         *)
(***************************************************************************)
C10_OwnPackageMoved ==
    \A i \in Builds :
        moved[i] \in {<<"none">>, <<"not run">>, ID(Images[i])}

====
